---- MODULE Spec2Model ----
(***************************************************************************)
(* mae_macros: the MaeRepo derive, the schema attribute macro, and the     *)
(* code they generate (Field, PatchField, InsertRow, UpdateRow) together   *)
(* with the generated ToSqlParts / BindArgs implementations.               *)
(*                                                                         *)
(* A Rust String is a sequence of tokens: an identifier rendered with      *)
(* to_string() is the one-token string <<name>>, ", " is a token of its    *)
(* own, and format!("${}", i) is <<"$", ToString(i)>>.  A type is a token  *)
(* sequence as well (Option<T> is "Option" "<" T ">").  A runtime value    *)
(* is a token sequence: a plain value <<"1">>, None <<"None">>, and        *)
(* Some(v) is <<"Some">> \o v.  The generated Debug impls only print and   *)
(* take no part in fragments or binding; they are left out.                *)
(***************************************************************************)
EXTENDS Integers, Sequences, FiniteSets, TLC

VARIABLES
    ast,     \* the item the macro is applied to (syn::DeriveInput)
    pc,      \* "input", "rebuilt" (schema expanded), "generated", "failed"
    out,     \* the token stream emitted so far, item by item
    inst,    \* the artifact instance the calling code built
    parts,   \* the result of inst.to_sql_parts()
    blen,    \* the result of inst.bind_len()
    args,    \* the PgArguments sink inst.bind() writes to
    margs,   \* the arguments schema was given: (ctx, "literal")
    test,    \* a function under #[mae_test]: its expansion and its run
    call     \* the last call of a must helper and how it ended

vars == <<ast, pc, out, inst, parts, blen, args, margs, test, call>>

(***************************************************************************)
(* Bounds of the model.                                                    *)
(***************************************************************************)
MaxFields == 2     \* fields the user declares in one definition
MaxVal == 2        \* distinct plain values a field can hold

(***************************************************************************)
(* Inputs: definitions the macros can be applied to.                       *)
(***************************************************************************)
Attr(path, a) == [path |-> path, args |-> a]

\* the attributes a field can carry: the three policy tags of the derive and
\* one attribute that is no policy tag
AttrPool == << Attr("locked", ""), Attr("insert_only", ""),
               Attr("update_only", ""), Attr("sqlx", "json") >>

RECURSIVE Pick(_, _, _)
\* the subsequence of s at the positions in idx, from position i on
Pick(s, idx, i) ==
    IF i > Len(s) THEN <<>>
    ELSE (IF i \in idx THEN <<s[i]>> ELSE <<>>) \o Pick(s, idx, i + 1)

AttrLists == { Pick(AttrPool, idx, 1) : idx \in SUBSET (1 .. Len(AttrPool)) }

OptionOf(ty) == <<"Option", "<">> \o ty \o <<">">>

\* the identifiers and types a user field can have
UserFields == { [name |-> "name",   ty |-> <<"String">>],
                [name |-> "amount", ty |-> <<"i32">>],
                [name |-> "note",   ty |-> OptionOf(<<"String">>)] }

Some(v) == [some |-> TRUE, v |-> v]
None == [some |-> FALSE, v |-> ""]

\* syn::Field of a struct with named fields: ident is always Some
NamedField(u, attrs) == [ident |-> Some(u.name), ty |-> u.ty, attrs |-> attrs]

Injective(s) == \A i, j \in DOMAIN s : i # j => s[i] # s[j]

\* Data::Struct with Fields::Named, Fields::Unnamed, Fields::Unit; Data::Enum
Shapes == {"named", "tuple", "unit", "enum"}

\* a struct with the named fields fs
NamedStruct(fs) == [ident |-> "Repo", shape |-> "named", fields |-> fs]

\* d is a definition a macro can be applied to: a struct of at most MaxFields
\* named fields, each with any attributes, or an item of another shape
IsDefinition(d) ==
    \/ \E n \in 0 .. MaxFields :
          \E us \in [1 .. n -> UserFields] :
              /\ Injective(us)
              /\ \E as \in [1 .. n -> AttrLists] :
                    d = NamedStruct([i \in 1 .. n |-> NamedField(us[i], as[i])])
    \/ \E sh \in Shapes \ {"named"} :
          d = [ident |-> "Repo", shape |-> sh, fields |-> <<>>]

(***************************************************************************)
(* Token-level helpers.                                                    *)
(***************************************************************************)
\* Ident::to_string(): the identifier as a one-token string
to_string(ident) == <<ident>>

RECURSIVE JoinFrom(_, _, _)
JoinFrom(strs, sep, i) ==
    IF i > Len(strs) THEN <<>>
    ELSE (IF i > 1 THEN sep ELSE <<>>) \o strs[i] \o JoinFrom(strs, sep, i + 1)

\* [String]::join(sep)
join(strs, sep) == JoinFrom(strs, sep, 1)

\* Vec::contains
contains(v, x) == \E i \in DOMAIN v : v[i] = x

\* Attribute::path().is_ident(name)
is_ident(a, name) == a.path = name

\* syn::Error::new_spanned(..., msg).to_compile_error()
to_compile_error(msg) == Some(msg)

\* Data::Struct(DataStruct { fields: Fields::Named(..), .. })
IsNamedStruct(a) == a.shape = "named"

(***************************************************************************)
(* util.rs: to_fields, the Field enum.                                     *)
(***************************************************************************)
NoFieldBody ==
    [error |-> None, ident |-> "Field", variants |-> <<>>,
     to_string_arms |-> <<>>, all_cols_str |-> <<>>, impls |-> <<>>]

\* a faulty FieldsWithIdent: the loop skips the locked fields as the other generators do
FieldsNotLocked(a) ==
    SelectSeq(a.fields, LAMBDA f : f.ident.some /\ \A i \in DOMAIN f.attrs :
                                      ~is_ident(f.attrs[i], "locked"))

\* the fields the loop of to_fields pushes for (a field without an ident is
\* skipped with a compile error pushed among the variants)
FieldsWithIdent(a) == SelectSeq(a.fields, LAMBDA f : f.ident.some)

\* the separator of all_cols.join
AllColsSep == <<", ">>

to_fields(a) ==
    IF ~IsNamedStruct(a)
    THEN [NoFieldBody EXCEPT
            !.error = to_compile_error("expected a struct with named fields")]
    ELSE LET fs == FieldsWithIdent(a)
             all_cols == [i \in DOMAIN fs |-> to_string(fs[i].ident.v)]
         IN  [error |-> None,
              ident |-> "Field",
              variants |-> <<"All">> \o [i \in DOMAIN fs |-> fs[i].ident.v],
              to_string_arms |->
                  [i \in DOMAIN fs |-> [variant |-> fs[i].ident.v,
                                        str |-> to_string(fs[i].ident.v)]],
              all_cols_str |-> join(all_cols, AllColsSep),
              impls |-> <<"ToSqlParts", "Display">>]

(***************************************************************************)
(* util.rs: to_patches, the PatchField enum.                               *)
(***************************************************************************)
NoPatchBody ==
    [error |-> None, ident |-> "PatchField", typed_enum |-> <<>>,
     to_string |-> <<>>, to_arg |-> <<>>, impls |-> <<>>]

\* the attribute names to_patches refuses
PatchBlackList == <<"locked", "insert_only">>

\* a faulty PatchAllowed: only locked is refused, insert_only is forgotten
PatchAllowedLockedOnly(f) ==
    /\ f.ident.some
    /\ \A i \in DOMAIN f.attrs : ~is_ident(f.attrs[i], "locked")

\* the condition of the if of to_patches: the field has an ident and every
\* one of its attributes is neither locked nor insert_only
PatchAllowed(f) ==
    /\ f.ident.some
    /\ \A i \in DOMAIN f.attrs :
          /\ ~is_ident(f.attrs[i], PatchBlackList[1])
          /\ ~is_ident(f.attrs[i], PatchBlackList[2])

to_patches(a) ==
    IF ~IsNamedStruct(a)
    THEN [NoPatchBody EXCEPT
            !.error = to_compile_error("expected a struct with named fields")]
    ELSE LET fs == SelectSeq(a.fields, PatchAllowed)
         IN  [error |-> None,
              ident |-> "PatchField",
              typed_enum |->
                  [i \in DOMAIN fs |-> [variant |-> fs[i].ident.v, ty |-> fs[i].ty]],
              to_string |->
                  [i \in DOMAIN fs |-> [variant |-> fs[i].ident.v,
                                        str |-> to_string(fs[i].ident.v)]],
              to_arg |-> [i \in DOMAIN fs |-> [variant |-> fs[i].ident.v]],
              impls |-> <<"Display", "ToSqlParts", "BindArgs", "Debug">>]

(***************************************************************************)
(* util.rs: to_row, the InsertRow and UpdateRow structs.                   *)
(***************************************************************************)
NoRowBody ==
    [error |-> None, ident |-> "Row", props |-> <<>>, string_some |-> <<>>,
     bind_some |-> <<>>, bind_len |-> <<>>, impls |-> <<>>]

\* a faulty RowAllowed: any() for all(), so one harmless attribute lets the
\* field through
RowAllowedAny(f, attr_black_list) ==
    /\ f.ident.some
    /\ \/ f.attrs = <<>>
       \/ \E i \in DOMAIN f.attrs :
             \A j \in DOMAIN attr_black_list :
                 ~is_ident(f.attrs[i], attr_black_list[j])

\* the condition of the if of to_row: the field has an ident and none of its
\* attributes is named in the black list
RowAllowed(f, attr_black_list) ==
    /\ f.ident.some
    /\ \A i \in DOMAIN f.attrs :
          \A j \in DOMAIN attr_black_list :
              ~is_ident(f.attrs[i], attr_black_list[j])

\* a faulty RowPropType: the Option wrapper of the update branch in both
RowPropTypeOption(is_insert_row, ty) == OptionOf(ty)

\* the type a row declares for a field of type ty
RowPropType(is_insert_row, ty) == IF is_insert_row THEN ty ELSE OptionOf(ty)

to_row(a, attr_black_list) ==
    IF ~IsNamedStruct(a)
    THEN [NoRowBody EXCEPT
            !.error = to_compile_error("expected a struct with named fields")]
    ELSE LET is_insert_row == contains(attr_black_list, "update_only")
             is_update_row == ~is_insert_row
             fs == SelectSeq(a.fields, LAMBDA f : RowAllowed(f, attr_black_list))
             \* one generated statement per kept field; if_some says the
             \* statement is wrapped in `if let Some(v) = &self.field`
             stmt(i) == [field |-> fs[i].ident.v,
                         name_str |-> to_string(fs[i].ident.v),
                         if_some |-> is_update_row]
         IN  [error |-> None,
              ident |-> IF is_insert_row THEN "InsertRow" ELSE "UpdateRow",
              props |-> [i \in DOMAIN fs |->
                            [name |-> fs[i].ident.v,
                             ty |-> RowPropType(is_insert_row, fs[i].ty)]],
              string_some |-> [i \in DOMAIN fs |-> stmt(i)],
              bind_some |-> [i \in DOMAIN fs |-> stmt(i)],
              bind_len |-> [i \in DOMAIN fs |-> stmt(i)],
              impls |-> <<"ToSqlParts", "BindArgs", "Debug">>]

(***************************************************************************)
(* lib.rs: derive_mae_repo and schema.                                     *)
(***************************************************************************)
NoRepo == [ident |-> "", shape |-> "none", fields |-> <<>>]
NoBuild == [ctx |-> "", schema |-> ""]

\* nothing emitted yet
NoOutput ==
    [items |-> <<>>, error |-> None, repo |-> NoRepo, build |-> NoBuild,
     Field |-> NoFieldBody, InsertRow |-> NoRowBody, UpdateRow |-> NoRowBody,
     PatchField |-> NoPatchBody]

\* a faulty UpdateBlackList: the update row forgets insert_only
UpdateBlackListLockedOnly == <<"locked">>

\* a faulty InsertBlackList: the update row's list handed to both calls
InsertBlackListOfUpdate == <<"locked", "insert_only">>

\* the black lists derive_mae_repo hands to to_row
InsertBlackList == <<"locked", "update_only">>
UpdateBlackList == <<"locked", "insert_only">>

\* a faulty derive_mae_repo: no early return, the generators' own errors are
\* emitted side by side
derive_mae_repo_unguarded(a, o) ==
    LET insert_row == to_row(a, <<"locked", "update_only">>)
        update_row == to_row(a, <<"locked", "insert_only">>)
        repo_typed == to_patches(a)
        repo_variant == to_fields(a)
    IN  [o EXCEPT
           !.items = @ \o <<repo_variant.ident, insert_row.ident,
                            update_row.ident, repo_typed.ident>>,
           !.Field = repo_variant,
           !.InsertRow = insert_row,
           !.UpdateRow = update_row,
           !.PatchField = repo_typed]

\* the token stream derive_mae_repo returns for a, appended to what o holds
derive_mae_repo(a, o) ==
    IF ~IsNamedStruct(a)
    THEN [o EXCEPT
            !.items = @ \o <<"compile_error">>,
            !.error = to_compile_error(
                          "MaeRepo derive expects a struct with named fields")]
    ELSE LET insert_row == to_row(a, InsertBlackList)
             update_row == to_row(a, UpdateBlackList)
             repo_typed == to_patches(a)
             repo_variant == to_fields(a)
         IN  [o EXCEPT
                !.items = @ \o <<repo_variant.ident, insert_row.ident,
                                 update_row.ident, repo_typed.ident>>,
                !.Field = repo_variant,
                !.InsertRow = insert_row,
                !.UpdateRow = update_row,
                !.PatchField = repo_typed]

Locked == <<Attr("locked", "")>>
InsertOnly == <<Attr("insert_only", "")>>
SqlxJson == <<Attr("sqlx", "json")>>
DefaultField(name, ty, attrs) ==
    [ident |-> Some(name), ty |-> ty, attrs |-> attrs]

\* the fields schema puts before and after the user's
RepoHead ==
    << DefaultField("id", <<"i32">>, Locked),
       DefaultField("sys_client", <<"i32">>, InsertOnly),
       DefaultField("status", <<"DomainStatus">>, <<>>) >>
RepoTail ==
    << DefaultField("comment", OptionOf(<<"String">>), <<>>),
       DefaultField("tags", <<"Value">>, SqlxJson),
       DefaultField("sys_detail", <<"Value">>, SqlxJson),
       DefaultField("created_by", <<"i32">>, Locked),
       DefaultField("updated_by", <<"i32">>, Locked),
       DefaultField("created_at", <<"DateTime">>, Locked),
       DefaultField("updated_at", <<"DateTime">>, Locked) >>

\* a faulty params: name and type are rebuilt, the attributes are dropped
params_without_attrs(fields) ==
    [i \in DOMAIN fields |->
        [ident |-> fields[i].ident, ty |-> fields[i].ty, attrs |-> <<>>]]

\* the params of schema: each user field again, attributes and type kept
params(fields) ==
    [i \in DOMAIN fields |->
        [ident |-> fields[i].ident, ty |-> fields[i].ty,
         attrs |-> fields[i].attrs]]

\* the token stream schema(ctx, lit) returns for a
schema(ctx, lit, a) ==
    IF ~IsNamedStruct(a)
    THEN [NoOutput EXCEPT
            !.items = <<"compile_error">>,
            !.error = to_compile_error(
                          "schema only works for structs with named fields")]
    ELSE [NoOutput EXCEPT
            !.items = <<"struct", "Build">>,
            !.repo = [ident |-> a.ident, shape |-> "named",
                      fields |-> RepoHead \o params(a.fields) \o RepoTail],
            !.build = [ctx |-> ctx, schema |-> lit]]

\* the context types and fragment-source literals given to schema
Contexts == {"Ctx"}
Literals == {"public.repo", "app.item"}

(***************************************************************************)
(* The generated code, run on an instance built by the calling code.       *)
(***************************************************************************)
\* the values of a type: an Option<T> is None or Some of a value of T
RECURSIVE ValuesOf(_)
ValuesOf(ty) ==
    IF Head(ty) = "Option"
    THEN {<<"None">>} \cup
         { <<"Some">> \o v : v \in ValuesOf(SubSeq(ty, 3, Len(ty) - 1)) }
    ELSE { <<ToString(n)>> : n \in 1 .. MaxVal }

\* the pattern `Some(v)` matches val
IsSome(val) == Head(val) = "Some"
\* the v bound by `if let Some(v) = &val`
Unwrap(val) == Tail(val)

\* a faulty Placeholder: formatted before the counter is incremented
PlaceholderBeforeIncrement(i) == <<"$", ToString(i - 1)>>

\* format!("${}", i)
Placeholder(i) == <<"$", ToString(i)>>

\* the start of the counter `let mut i = 0` of the generated to_sql_parts
FirstIndex == 0

\* a faulty StringSomeStep: the counter moves outside `if let Some`, so an
\* absent field leaves a gap in the numbering
StringSomeStepGap(stmt, self, st) ==
    IF stmt.if_some /\ ~IsSome(self[stmt.field])
    THEN [st EXCEPT !.i = st.i + 1]
    ELSE [i |-> st.i + 1,
          sql |-> Append(st.sql, stmt.name_str),
          sql_i |-> Append(st.sql_i, <<"$", ToString(st.i + 1)>>)]

\* one statement of string_some, run on self with the locals in st
StringSomeStep(stmt, self, st) ==
    IF stmt.if_some /\ ~IsSome(self[stmt.field])
    THEN st
    ELSE [i |-> st.i + 1,
          sql |-> Append(st.sql, stmt.name_str),
          sql_i |-> Append(st.sql_i, Placeholder(st.i + 1))]

RECURSIVE RunStringSome(_, _, _, _)
RunStringSome(stmts, self, k, st) ==
    IF k > Len(stmts) THEN st
    ELSE RunStringSome(stmts, self, k + 1, StringSomeStep(stmts[k], self, st))

\* <InsertRow | UpdateRow as ToSqlParts>::to_sql_parts
Row_to_sql_parts(body, self) ==
    LET st == RunStringSome(body.string_some, self, 1,
                            [i |-> FirstIndex, sql |-> <<>>, sql_i |-> <<>>])
    IN  [called |-> TRUE, sql |-> st.sql, sql_i |-> Some(st.sql_i)]

\* one statement of bind_some: args.add(v) or args.add(&self.field)
BindSomeStep(stmt, self, a) ==
    IF stmt.if_some
    THEN (IF IsSome(self[stmt.field])
          THEN Append(a, Unwrap(self[stmt.field]))
          ELSE a)
    ELSE Append(a, self[stmt.field])

RECURSIVE RunBindSome(_, _, _, _)
RunBindSome(stmts, self, k, a) ==
    IF k > Len(stmts) THEN a
    ELSE RunBindSome(stmts, self, k + 1, BindSomeStep(stmts[k], self, a))

\* <InsertRow | UpdateRow as BindArgs>::bind
Row_bind(body, self, a) == RunBindSome(body.bind_some, self, 1, a)

\* a faulty BindLenStep: the update row counts as the insert row does,
\* present or not
BindLenStepAlways(stmt, self, count) == count + 1

\* one statement of bind_len: count += 1, under `if let Some` in UpdateRow
BindLenStep(stmt, self, count) ==
    IF stmt.if_some /\ ~IsSome(self[stmt.field]) THEN count ELSE count + 1

RECURSIVE RunBindLen(_, _, _, _)
RunBindLen(stmts, self, k, count) ==
    IF k > Len(stmts) THEN count
    ELSE RunBindLen(stmts, self, k + 1, BindLenStep(stmts[k], self, count))

\* <InsertRow | UpdateRow as BindArgs>::bind_len
Row_bind_len(body, self) == RunBindLen(body.bind_len, self, 1, 0)

\* the arm of a generated match that matches the variant
Arm(arms, variant) == arms[CHOOSE i \in DOMAIN arms : arms[i].variant = variant]

\* <PatchField as Display>::fmt
Patch_to_string(body, self) == Arm(body.to_string, self.variant).str

\* <PatchField as ToSqlParts>::to_sql_parts
Patch_to_sql_parts(body, self) ==
    [called |-> TRUE, sql |-> <<Patch_to_string(body, self)>>,
     sql_i |-> [some |-> FALSE, v |-> <<>>]]

\* <PatchField as BindArgs>::bind: the matching arm adds the carried value
Patch_bind(body, self, a) ==
    IF \E i \in DOMAIN body.to_arg : body.to_arg[i].variant = self.variant
    THEN Append(a, self.arg)
    ELSE a

\* <PatchField as BindArgs>::bind_len
Patch_bind_len == 1

\* <Field as Display>::fmt
Field_to_string(body, self) ==
    IF self.variant = "All"
    THEN body.all_cols_str
    ELSE Arm(body.to_string_arms, self.variant).str

\* <Field as ToSqlParts>::to_sql_parts
Field_to_sql_parts(body, self) ==
    [called |-> TRUE, sql |-> <<Field_to_string(body, self)>>,
     sql_i |-> [some |-> FALSE, v |-> <<>>]]

(***************************************************************************)
(* The build: the macros expand.                                           *)
(***************************************************************************)
NoInstance == [kind |-> "none", variant |-> "", arg |-> <<>>, fields |-> <<>>]
NoParts == [called |-> FALSE, sql |-> <<>>, sql_i |-> [some |-> FALSE, v |-> <<>>]]
NoLen == [called |-> FALSE, v |-> 0]
NoArgs == [called |-> FALSE, v |-> <<>>]
\* schema not applied: no arguments given
NoMacroArgs == [ctx |-> "", schema |-> ""]
\* no function under #[mae_test]
NoTest ==
    [item |-> [is_fn |-> FALSE, inputs |-> 0, body_s |-> <<>>,
               output |-> "Default", async |-> FALSE, attrs |-> <<>>],
     pc |-> "none", error |-> None, attrs |-> <<>>, async |-> FALSE,
     ret_ty |-> "", rt |-> "none",
     user_result |-> [ok |-> FALSE, v |-> ""],
     teardown_result |-> [ok |-> FALSE, v |-> ""],
     log |-> <<>>, outcome |-> [kind |-> "none", v |-> ""]]
\* no must helper called
NoCall ==
    [fn |-> "none", arg |-> [kind |-> "none", v |-> <<>>], msg |-> "",
     loc |-> "", result |-> [kind |-> "none", v |-> <<>>]]

Init ==
    /\ IsDefinition(ast)
    /\ pc = "input"
    /\ out = NoOutput
    /\ inst = NoInstance
    /\ parts = NoParts
    /\ blen = NoLen
    /\ args = NoArgs
    /\ margs = NoMacroArgs
    /\ test = NoTest
    /\ call = NoCall

\* #[schema(ctx, "lit")] on the definition: the struct is rebuilt with
\* #[derive(MaeRepo)] on it, or a compile error is all there is
Schema ==
    /\ pc = "input"
    /\ \E ctx \in Contexts, lit \in Literals :
          /\ margs' = [ctx |-> ctx, schema |-> lit]
          /\ out' = schema(ctx, lit, ast)
    /\ pc' = IF out'.error.some THEN "failed" ELSE "rebuilt"
    /\ UNCHANGED <<ast, inst, parts, blen, args>>
    /\ UNCHANGED <<test, call>>

\* the item #[derive(MaeRepo)] sees: the definition itself, or the struct
\* schema rebuilt
DeriveInput == IF pc = "rebuilt" THEN out.repo ELSE ast

DeriveMaeRepo ==
    /\ pc \in {"input", "rebuilt"}
    /\ out' = derive_mae_repo(DeriveInput, out)
    /\ pc' = IF out'.error.some THEN "failed" ELSE "generated"
    /\ UNCHANGED <<ast, inst, parts, blen, args>>
    /\ UNCHANGED <<margs, test, call>>

Next == Schema \/ DeriveMaeRepo

Spec == Init /\ [][Next]_vars

(***************************************************************************)
(* The calling code: it builds one instance of a generated type and calls  *)
(* the generated methods on it.                                            *)
(***************************************************************************)
\* the instances of a generated row: one value of its declared type a field
Rows(body) ==
    LET names == { body.props[i].name : i \in DOMAIN body.props }
        ty(n) == body.props[CHOOSE i \in DOMAIN body.props :
                                body.props[i].name = n].ty
        vals == UNION { ValuesOf(body.props[i].ty) : i \in DOMAIN body.props }
    IN  { r \in [names -> vals] : \A n \in names : r[n] \in ValuesOf(ty(n)) }

NewField ==
    /\ pc = "generated"
    /\ inst.kind = "none"
    /\ \E i \in DOMAIN out.Field.variants :
          inst' = [NoInstance EXCEPT !.kind = "Field",
                                     !.variant = out.Field.variants[i]]
    /\ UNCHANGED <<ast, pc, out, parts, blen, args>>
    /\ UNCHANGED <<margs, test, call>>

NewPatchField ==
    /\ pc = "generated"
    /\ inst.kind = "none"
    /\ \E i \in DOMAIN out.PatchField.typed_enum :
          \E val \in ValuesOf(out.PatchField.typed_enum[i].ty) :
              inst' = [NoInstance EXCEPT
                          !.kind = "PatchField",
                          !.variant = out.PatchField.typed_enum[i].variant,
                          !.arg = val]
    /\ UNCHANGED <<ast, pc, out, parts, blen, args>>
    /\ UNCHANGED <<margs, test, call>>

NewInsertRow ==
    /\ pc = "generated"
    /\ inst.kind = "none"
    /\ \E r \in Rows(out.InsertRow) :
          inst' = [NoInstance EXCEPT !.kind = "InsertRow", !.fields = r]
    /\ UNCHANGED <<ast, pc, out, parts, blen, args>>
    /\ UNCHANGED <<margs, test, call>>

NewUpdateRow ==
    /\ pc = "generated"
    /\ inst.kind = "none"
    /\ \E r \in Rows(out.UpdateRow) :
          inst' = [NoInstance EXCEPT !.kind = "UpdateRow", !.fields = r]
    /\ UNCHANGED <<ast, pc, out, parts, blen, args>>
    /\ UNCHANGED <<margs, test, call>>

\* inst.to_sql_parts(), by the impl generated for the type of inst
to_sql_parts(o, self) ==
    CASE self.kind = "Field" -> Field_to_sql_parts(o.Field, self)
      [] self.kind = "PatchField" -> Patch_to_sql_parts(o.PatchField, self)
      [] self.kind = "InsertRow" -> Row_to_sql_parts(o.InsertRow, self.fields)
      [] self.kind = "UpdateRow" -> Row_to_sql_parts(o.UpdateRow, self.fields)

\* inst.bind(&mut args)
bind(o, self, a) ==
    CASE self.kind = "PatchField" -> Patch_bind(o.PatchField, self, a)
      [] self.kind = "InsertRow" -> Row_bind(o.InsertRow, self.fields, a)
      [] self.kind = "UpdateRow" -> Row_bind(o.UpdateRow, self.fields, a)

\* inst.bind_len()
bind_len(o, self) ==
    CASE self.kind = "PatchField" -> Patch_bind_len
      [] self.kind = "InsertRow" -> Row_bind_len(o.InsertRow, self.fields)
      [] self.kind = "UpdateRow" -> Row_bind_len(o.UpdateRow, self.fields)

\* the types BindArgs is implemented for (Field has no such impl)
HasBindArgs(self) == self.kind \in {"PatchField", "InsertRow", "UpdateRow"}

ToSqlParts ==
    /\ inst.kind # "none"
    /\ ~parts.called
    /\ parts' = to_sql_parts(out, inst)
    /\ UNCHANGED <<ast, pc, out, inst, blen, args>>
    /\ UNCHANGED <<margs, test, call>>

Bind ==
    /\ HasBindArgs(inst)
    /\ ~args.called
    /\ args' = [called |-> TRUE, v |-> bind(out, inst, args.v)]
    /\ UNCHANGED <<ast, pc, out, inst, parts, blen>>
    /\ UNCHANGED <<margs, test, call>>

BindLen ==
    /\ HasBindArgs(inst)
    /\ ~blen.called
    /\ blen' = [called |-> TRUE, v |-> bind_len(out, inst)]
    /\ UNCHANGED <<ast, pc, out, inst, parts, args>>
    /\ UNCHANGED <<margs, test, call>>

NextRun ==
    \/ DeriveMaeRepo
    \/ NewField
    \/ NewPatchField
    \/ NewInsertRow
    \/ NewUpdateRow
    \/ ToSqlParts
    \/ Bind
    \/ BindLen

\* the derive, then the generated code at work
SpecRun == Init /\ [][NextRun]_vars

(***************************************************************************)
(* lib.rs: mae_test.  The attribute rewrites a test function; the          *)
(* rewritten function builds a runtime, runs the user's body under         *)
(* catch_unwind, runs teardown under catch_unwind, and matches on the two  *)
(* results.  body_s, the printed body, is given by the substrings of       *)
(* interest it contains.                                                   *)
(***************************************************************************)
genvars == <<ast, pc, out, inst, parts, blen, args, margs>>

\* the patterns mae_test refuses in a test body
forbidden == <<".expect", ".unwrap", "assert!", "assert_eq!", "assert_ne!">>

\* what a printed body can contain: a must helper, the ? operator, or one
\* of the refused calls
BodyStrings == {<<"must_eq">>, <<"?">>} \cup
               { <<"must_eq", forbidden[i]>> : i \in DOMAIN forbidden }

\* the items #[mae_test] can be put on: something that is no function, or a
\* function with or without arguments, async or not, returning () or a type
TestItems ==
    {[NoTest.item EXCEPT !.body_s = <<"struct">>]} \cup
    { [is_fn |-> TRUE, inputs |-> n, body_s |-> b, output |-> o,
       async |-> a, attrs |-> <<>>] :
        n \in 0 .. 1, b \in BodyStrings, o \in {"Default", "Type"},
        a \in BOOLEAN }

\* the expansion mae_test returns for an item, written into t
mae_test(t, item) ==
    IF ~item.is_fn
    THEN [t EXCEPT !.pc = "error",
                   !.error = to_compile_error(
                       "#[mae_test] can only be applied to a function")]
    ELSE IF item.inputs # 0
    THEN [t EXCEPT !.pc = "error",
                   !.error = to_compile_error(
                       "#[mae_test] test functions must not take arguments")]
    ELSE IF \E i \in DOMAIN forbidden : contains(item.body_s, forbidden[i])
    THEN [t EXCEPT !.pc = "error",
                   !.error = to_compile_error(
                       "#[mae_test] forbids assert*/unwrap/expect in test bodies; use must::* helpers or return Result and use ?")]
    ELSE [t EXCEPT !.pc = "expanded",
                   !.ret_ty = IF item.output = "Default" THEN "()" ELSE "Result",
                   !.async = FALSE,
                   !.attrs = <<"test">> \o item.attrs]

\* the values a body of the return type can return
Returns(ret_ty) == IF ret_ty = "()" THEN {"()"} ELSE {"Ok(())", "Err(e)"}

\* std::thread::Result: Ok(value) or Err(panic payload)
Caught(ok, v) == [ok |-> ok, v |-> v]

Return(v) == [kind |-> "return", v |-> v]
\* std::panic::resume_unwind(payload), and a panic that is not caught
Panic(payload) == [kind |-> "panic", v |-> payload]

\* a faulty mae_match: when both panicked the teardown panic is rethrown
mae_match_teardown_first(user_result, teardown_result) ==
    IF ~teardown_result.ok THEN Panic(teardown_result.v)
    ELSE IF ~user_result.ok THEN Panic(user_result.v)
    ELSE Return(user_result.v)

\* match (__user_result, __teardown_result)
mae_match(user_result, teardown_result) ==
    CASE user_result.ok /\ teardown_result.ok -> Return(user_result.v)
      [] ~user_result.ok /\ teardown_result.ok -> Panic(user_result.v)
      [] user_result.ok /\ ~teardown_result.ok -> Panic(teardown_result.v)
      [] ~user_result.ok /\ ~teardown_result.ok -> Panic(user_result.v)

InitTest ==
    /\ ast = NamedStruct(<<>>)
    /\ pc = "input"
    /\ out = NoOutput
    /\ inst = NoInstance
    /\ parts = NoParts
    /\ blen = NoLen
    /\ args = NoArgs
    /\ margs = NoMacroArgs
    /\ call = NoCall
    /\ \E item \in TestItems : test = [NoTest EXCEPT !.item = item, !.pc = "item"]

\* the compiler expands #[mae_test] on the item
MaeTestExpand ==
    /\ test.pc = "item"
    /\ test' = mae_test(test, test.item)
    /\ UNCHANGED <<genvars, call>>

\* __mae_run_test: the runtime is built, or build() fails and expect panics
BuildRuntime ==
    /\ test.pc = "expanded"
    /\ \/ test' = [test EXCEPT !.pc = "running", !.rt = "ok"]
       \/ test' = [test EXCEPT
                     !.pc = "done", !.rt = "err",
                     !.outcome = Panic(
                         "failed to build tokio runtime for #[mae_test]")]
    /\ UNCHANGED <<genvars, call>>

\* catch_unwind around block_on of the user's body: it returns or it panics
RunUserBody ==
    /\ test.pc = "running"
    /\ \E r \in { Caught(TRUE, v) : v \in Returns(test.ret_ty) }
                 \cup {Caught(FALSE, "user panic")} :
          test' = [test EXCEPT !.pc = "user_done",
                               !.user_result = r,
                               !.log = Append(@, "user")]
    /\ UNCHANGED <<genvars, call>>

\* catch_unwind around block_on of teardown(): it returns or it panics
RunTeardown ==
    /\ test.pc = "user_done"
    /\ \E r \in {Caught(TRUE, "()"), Caught(FALSE, "teardown panic")} :
          test' = [test EXCEPT !.pc = "teardown_done",
                               !.teardown_result = r,
                               !.log = Append(@, "teardown")]
    /\ UNCHANGED <<genvars, call>>

\* the match on the two results: the test returns or the panic goes on
Finish ==
    /\ test.pc = "teardown_done"
    /\ test' = [test EXCEPT
                  !.pc = "done",
                  !.outcome = mae_match(test.user_result, test.teardown_result)]
    /\ UNCHANGED <<genvars, call>>

NextTest ==
    \/ MaeTestExpand
    \/ BuildRuntime
    \/ RunUserBody
    \/ RunTeardown
    \/ Finish

\* a function under #[mae_test], expanded and run
SpecTest == InitTest /\ [][NextTest]_vars

(***************************************************************************)
(* tests/common/must.rs: the must helpers.  A value is a sequence of       *)
(* tokens, an Option or a Result is its variant with the value it wraps,   *)
(* and a panic message is the sequence of the pieces format! puts          *)
(* together.  tests/must.rs repeats the two Must impls and the first two   *)
(* free functions word for word.                                           *)
(***************************************************************************)
\* the wrapped values, the errors, the messages and the callers of the tests
MustValues == { <<ToString(n)>> : n \in 1 .. MaxVal }
MustErrors == {"boom", "nope"}
MustMsgs == {"custom msg", "should fail", "msg"}
Callers == {"tests/common/must.rs:115:28", "tests/common/must.rs:140:19"}

SomeOf(v) == [kind |-> "Some", v |-> v]
NoneOf == [kind |-> "None", v |-> <<>>]
OkOf(v) == [kind |-> "Ok", v |-> v]
ErrOf(e) == [kind |-> "Err", v |-> <<e>>]
BoolOf(b) == [kind |-> IF b THEN "true" ELSE "false", v |-> <<>>]

Options == {NoneOf} \cup { SomeOf(v) : v \in MustValues }
Results == { OkOf(v) : v \in MustValues } \cup { ErrOf(e) : e \in MustErrors }

\* {:?} of a &str error: the text in double quotes
debug(err) == <<"\"">> \o err \o <<"\"">>

Returned(v) == [kind |-> "return", v |-> v]
Panicked(message) == [kind |-> "panic", v |-> message]

\* impl Must for Option
Option_must(opt, loc) ==
    IF opt.kind = "Some" THEN Returned(opt.v)
    ELSE Panicked(<<"test invariant failed: ", "expected Some, got None",
                    " at ", loc>>)

\* a faulty must_expect: the caller's msg is left out of the panic
Option_must_expect_without_msg(opt, msg, loc) == Option_must(opt, loc)

\* impl MustExpect for Option
Option_must_expect(opt, msg, loc) ==
    IF opt.kind = "Some" THEN Returned(opt.v)
    ELSE Panicked(<<msg, " (", "expected Some, got None", ") at ", loc>>)

\* impl Must for Result
Result_must(res, loc) ==
    IF res.kind = "Ok" THEN Returned(res.v)
    ELSE Panicked(<<"test invariant failed: ", "expected Ok", ", got ">>
                  \o debug(res.v) \o <<" at ", loc>>)

\* impl MustExpect for Result
Result_must_expect(res, msg, loc) ==
    IF res.kind = "Ok" THEN Returned(res.v)
    ELSE Panicked(<<msg, " (", "expected Ok", ", got ">>
                  \o debug(res.v) \o <<") at ", loc>>)

\* the free functions are #[track_caller]: the location is their caller's
must_be_some(opt, loc) == Option_must(opt, loc)
must_be_ok(res, loc) == Result_must(res, loc)
must_expect_some(opt, msg, loc) == Option_must_expect(opt, msg, loc)
must_expect_ok(res, msg, loc) == Result_must_expect(res, msg, loc)

\* assert!(b)
must_be_true(b, loc) ==
    IF b.kind = "true" THEN Returned(<<"()">>)
    ELSE Panicked(<<"assertion failed: ", "b">>)

Called1(fn, arg, loc, result) ==
    [fn |-> fn, arg |-> arg, msg |-> "", loc |-> loc, result |-> result]
Called2(fn, arg, msg, loc, result) ==
    [fn |-> fn, arg |-> arg, msg |-> msg, loc |-> loc, result |-> result]

InitMust ==
    /\ ast = NamedStruct(<<>>)
    /\ pc = "input"
    /\ out = NoOutput
    /\ inst = NoInstance
    /\ parts = NoParts
    /\ blen = NoLen
    /\ args = NoArgs
    /\ margs = NoMacroArgs
    /\ test = NoTest
    /\ call = NoCall

OptionMust ==
    /\ \E opt \in Options, loc \in Callers :
          call' = Called1("Option::must", opt, loc, Option_must(opt, loc))
    /\ UNCHANGED <<genvars, test>>

OptionMustExpect ==
    /\ \E opt \in Options, msg \in MustMsgs, loc \in Callers :
          call' = Called2("Option::must_expect", opt, msg, loc,
                          Option_must_expect(opt, msg, loc))
    /\ UNCHANGED <<genvars, test>>

ResultMust ==
    /\ \E res \in Results, loc \in Callers :
          call' = Called1("Result::must", res, loc, Result_must(res, loc))
    /\ UNCHANGED <<genvars, test>>

ResultMustExpect ==
    /\ \E res \in Results, msg \in MustMsgs, loc \in Callers :
          call' = Called2("Result::must_expect", res, msg, loc,
                          Result_must_expect(res, msg, loc))
    /\ UNCHANGED <<genvars, test>>

MustBeSome ==
    /\ \E opt \in Options, loc \in Callers :
          call' = Called1("must_be_some", opt, loc, must_be_some(opt, loc))
    /\ UNCHANGED <<genvars, test>>

MustBeOk ==
    /\ \E res \in Results, loc \in Callers :
          call' = Called1("must_be_ok", res, loc, must_be_ok(res, loc))
    /\ UNCHANGED <<genvars, test>>

MustExpectSome ==
    /\ \E opt \in Options, msg \in MustMsgs, loc \in Callers :
          call' = Called2("must_expect_some", opt, msg, loc,
                          must_expect_some(opt, msg, loc))
    /\ UNCHANGED <<genvars, test>>

MustExpectOk ==
    /\ \E res \in Results, msg \in MustMsgs, loc \in Callers :
          call' = Called2("must_expect_ok", res, msg, loc,
                          must_expect_ok(res, msg, loc))
    /\ UNCHANGED <<genvars, test>>

MustBeTrue ==
    /\ \E b \in BOOLEAN, loc \in Callers :
          call' = Called1("must_be_true", BoolOf(b), loc,
                          must_be_true(BoolOf(b), loc))
    /\ UNCHANGED <<genvars, test>>

NextMust ==
    \/ OptionMust
    \/ OptionMustExpect
    \/ ResultMust
    \/ ResultMustExpect
    \/ MustBeSome
    \/ MustBeOk
    \/ MustExpectSome
    \/ MustExpectOk
    \/ MustBeTrue

\* the must helpers, called one after the other by the tests
SpecMust == InitMust /\ [][NextMust]_vars

(***************************************************************************)
(* Vocabulary of the properties.                                           *)
(***************************************************************************)
\* the struct the derive generated from
Derived == IF out.repo.shape = "named" THEN out.repo ELSE ast

\* the policy tags a field carries
Tags(f) == { f.attrs[i].path : i \in DOMAIN f.attrs }
PolicyTags == {"locked", "insert_only", "update_only"}

\* the policy classification: locked wins over every other tag, no tag at
\* all is Mutable
IsLocked(f) == "locked" \in Tags(f)
IsInsertOnly(f) == ~IsLocked(f) /\ "insert_only" \in Tags(f)
IsUpdateOnly(f) == ~IsLocked(f) /\ "update_only" \in Tags(f)
IsMutable(f) == Tags(f) \cap PolicyTags = {}
\* insert_only together with update_only, and not locked
IsConflicting(f) == IsInsertOnly(f) /\ IsUpdateOnly(f)

NamesOf(fs) == [i \in DOMAIN fs |-> fs[i].ident.v]
TypesOf(fs) == [i \in DOMAIN fs |-> fs[i].ty]
Range(s) == { s[i] : i \in DOMAIN s }

\* the fields of the definition a patch or an update may set
Updatable(d) == SelectSeq(d.fields, LAMBDA f : ~IsLocked(f) /\ ~IsInsertOnly(f))
\* the fields of the definition an insert may set
Insertable(d) == SelectSeq(d.fields, LAMBDA f : ~IsLocked(f) /\ ~IsUpdateOnly(f))

(***************************************************************************)
(* C4: the variants of PatchField are exactly the fields whose policy is   *)
(* neither Locked nor InsertOnly, in declaration order; each variant       *)
(* carries one value of the field's declared type and renders to the bare  *)
(* field name.  A field with one policy tag at most is a variant exactly   *)
(* when it is Mutable or UpdateOnly.                                       *)
(***************************************************************************)
C4_PatchFieldVariants ==
    pc = "generated" =>
        LET want == Updatable(Derived)
            body == out.PatchField
        IN  /\ [i \in DOMAIN body.typed_enum |-> body.typed_enum[i].variant]
                   = NamesOf(want)
            /\ [i \in DOMAIN body.typed_enum |-> body.typed_enum[i].ty]
                   = TypesOf(want)
            /\ [i \in DOMAIN body.to_arg |-> body.to_arg[i].variant]
                   = NamesOf(want)
            /\ Len(body.to_string) = Len(want)
            /\ \A i \in DOMAIN body.to_string :
                  /\ body.to_string[i].variant = want[i].ident.v
                  /\ body.to_string[i].str = <<want[i].ident.v>>
            /\ \A i \in DOMAIN Derived.fields :
                  LET f == Derived.fields[i]
                  IN  ~IsConflicting(f) =>
                          ((f.ident.v \in Range(NamesOf(want)))
                              <=> (IsMutable(f) \/ IsUpdateOnly(f)))

C4_Witness ==
    /\ pc = "generated"
    /\ out.repo = NoRepo
    /\ Len(ast.fields) = 2
    /\ IsInsertOnly(ast.fields[1])
    /\ IsUpdateOnly(ast.fields[2])
    /\ ~IsConflicting(ast.fields[1])
    /\ ~IsConflicting(ast.fields[2])
    /\ Len(out.PatchField.typed_enum) = 1

(***************************************************************************)
(* C5: the fields of InsertRow are exactly the fields whose policy is      *)
(* neither Locked nor UpdateOnly, in declaration order, each declared      *)
(* with its plain type: no Option is wrapped around it.                    *)
(***************************************************************************)
C5_InsertRowFields ==
    pc = "generated" =>
        LET want == Insertable(Derived)
            body == out.InsertRow
        IN  /\ body.ident = "InsertRow"
            /\ [i \in DOMAIN body.props |-> body.props[i].name] = NamesOf(want)
            /\ [i \in DOMAIN body.props |-> body.props[i].ty] = TypesOf(want)
            /\ \A i \in DOMAIN body.string_some : ~body.string_some[i].if_some
            /\ \A i \in DOMAIN body.bind_some : ~body.bind_some[i].if_some
            /\ \A i \in DOMAIN body.bind_len : ~body.bind_len[i].if_some
            /\ \A i \in DOMAIN Derived.fields :
                  LET f == Derived.fields[i]
                  IN  ~IsConflicting(f) =>
                          ((f.ident.v \in Range(NamesOf(want)))
                              <=> (IsMutable(f) \/ IsInsertOnly(f)))

C5_Witness ==
    /\ pc = "generated"
    /\ out.repo = NoRepo
    /\ Len(ast.fields) = 2
    /\ IsUpdateOnly(ast.fields[1])
    /\ ~IsConflicting(ast.fields[1])
    /\ IsInsertOnly(ast.fields[2])
    /\ ~IsConflicting(ast.fields[2])
    /\ Head(ast.fields[2].ty) = "Option"
    /\ Len(out.InsertRow.props) = 1
    /\ out.InsertRow.props[1].ty = <<"Option", "<", "String", ">">>

(***************************************************************************)
(* C6: the fields of UpdateRow are exactly the fields whose policy is      *)
(* neither Locked nor InsertOnly, in declaration order, each declared as   *)
(* Option of its type.                                                     *)
(***************************************************************************)
C6_UpdateRowFields ==
    pc = "generated" =>
        LET want == Updatable(Derived)
            body == out.UpdateRow
        IN  /\ body.ident = "UpdateRow"
            /\ [i \in DOMAIN body.props |-> body.props[i].name] = NamesOf(want)
            /\ Len(body.props) = Len(want)
            /\ \A i \in DOMAIN body.props :
                  body.props[i].ty = <<"Option", "<">> \o want[i].ty \o <<">">>
            /\ \A i \in DOMAIN body.string_some : body.string_some[i].if_some
            /\ \A i \in DOMAIN body.bind_some : body.bind_some[i].if_some
            /\ \A i \in DOMAIN body.bind_len : body.bind_len[i].if_some
            /\ \A i \in DOMAIN Derived.fields :
                  LET f == Derived.fields[i]
                  IN  ~IsConflicting(f) =>
                          ((f.ident.v \in Range(NamesOf(want)))
                              <=> (IsMutable(f) \/ IsUpdateOnly(f)))

C6_Witness ==
    /\ pc = "generated"
    /\ out.repo = NoRepo
    /\ Len(ast.fields) = 2
    /\ IsInsertOnly(ast.fields[1])
    /\ ~IsConflicting(ast.fields[1])
    /\ IsUpdateOnly(ast.fields[2])
    /\ ~IsConflicting(ast.fields[2])
    /\ Head(ast.fields[2].ty) = "Option"
    /\ Len(out.UpdateRow.props) = 1
    /\ out.UpdateRow.props[1].ty
           = <<"Option", "<", "Option", "<", "String", ">", ">">>

(***************************************************************************)
(* C8: a definition with a field tagged both insert_only and update_only   *)
(* fails generation: a compile error and no artifact.  (The code has no    *)
(* such check.)                                                            *)
(***************************************************************************)
HasConflict(d) == \E i \in DOMAIN d.fields : IsConflicting(d.fields[i])

C8_ConflictingTagsRejected ==
    (HasConflict(ast) /\ pc # "input") =>
        /\ pc = "failed"
        /\ out.error.some
        /\ out.items = <<"compile_error">>

(***************************************************************************)
(* C9: generation is all or nothing on the shape.  For an item that is no  *)
(* struct with named fields the derive and schema each emit a compile      *)
(* error and nothing else; for a struct with named fields schema emits     *)
(* the rebuilt struct with its Build impl, and the derive emits Field,     *)
(* InsertRow, UpdateRow and PatchField, all four and without an error.     *)
(***************************************************************************)
NoArtifact(o) ==
    /\ o.Field = NoFieldBody
    /\ o.InsertRow = NoRowBody
    /\ o.UpdateRow = NoRowBody
    /\ o.PatchField = NoPatchBody

Artifacts == <<"Field", "InsertRow", "UpdateRow", "PatchField">>

AllArtifacts(o) ==
    /\ o.Field.ident = "Field" /\ ~o.Field.error.some
    /\ o.Field.impls # <<>>
    /\ o.InsertRow.ident = "InsertRow" /\ ~o.InsertRow.error.some
    /\ o.InsertRow.impls # <<>>
    /\ o.UpdateRow.ident = "UpdateRow" /\ ~o.UpdateRow.error.some
    /\ o.UpdateRow.impls # <<>>
    /\ o.PatchField.ident = "PatchField" /\ ~o.PatchField.error.some
    /\ o.PatchField.impls # <<>>

C9_AllOrNothing ==
    /\ (ast.shape # "named" /\ pc # "input") =>
          /\ pc = "failed"
          /\ out.items = <<"compile_error">>
          /\ out.error.some
          /\ NoArtifact(out)
          /\ out.repo = NoRepo
          /\ out.build = NoBuild
    /\ (ast.shape = "named" /\ pc # "input") =>
          /\ pc \in {"rebuilt", "generated"}
          /\ ~out.error.some
          /\ pc = "rebuilt" =>
                /\ out.items = <<"struct", "Build">>
                /\ out.repo.shape = "named"
                /\ out.build # NoBuild
                /\ NoArtifact(out)
          /\ pc = "generated" =>
                /\ out.items \in {Artifacts, <<"struct", "Build">> \o Artifacts}
                /\ AllArtifacts(out)

C9_Witness ==
    /\ ast.shape = "enum"
    /\ pc = "failed"
    /\ out.items = <<"compile_error">>

(***************************************************************************)
(* C10: locked takes precedence.  A field tagged locked, alone or with any *)
(* other attribute, is in none of PatchField, InsertRow and UpdateRow, and *)
(* it is a variant of Field and one of the names of Field::All.            *)
(***************************************************************************)
C10_LockedPrecedence ==
    pc = "generated" =>
        \A i \in DOMAIN Derived.fields :
            LET f == Derived.fields[i]
                n == f.ident.v
            IN  "locked" \in Tags(f) =>
                    /\ \A k \in DOMAIN out.PatchField.typed_enum :
                          out.PatchField.typed_enum[k].variant # n
                    /\ \A k \in DOMAIN out.PatchField.to_arg :
                          out.PatchField.to_arg[k].variant # n
                    /\ \A k \in DOMAIN out.InsertRow.props :
                          out.InsertRow.props[k].name # n
                    /\ \A k \in DOMAIN out.InsertRow.bind_some :
                          out.InsertRow.bind_some[k].field # n
                    /\ \A k \in DOMAIN out.UpdateRow.props :
                          out.UpdateRow.props[k].name # n
                    /\ \A k \in DOMAIN out.UpdateRow.bind_some :
                          out.UpdateRow.bind_some[k].field # n
                    /\ \E k \in DOMAIN out.Field.variants :
                          out.Field.variants[k] = n
                    /\ \E k \in DOMAIN out.Field.all_cols_str :
                          out.Field.all_cols_str[k] = n

C10_Witness ==
    /\ pc = "generated"
    /\ out.repo = NoRepo
    /\ Len(ast.fields) = 2
    /\ Tags(ast.fields[1]) = {"locked", "insert_only", "sqlx"}
    /\ Tags(ast.fields[2]) = {"locked", "update_only"}
    /\ out.InsertRow.props = <<>>
    /\ out.UpdateRow.props = <<>>
    /\ out.PatchField.typed_enum = <<>>
    /\ Len(out.Field.variants) = 3

(***************************************************************************)
(* Vocabulary of the properties about instances.                           *)
(***************************************************************************)
\* the placeholder tokens $1, ..., $k
Dollars(k) == [i \in 1 .. k |-> <<"$", ToString(i)>>]

\* the number of placeholder tokens of a fragment
PlaceholderCount(p) == IF p.sql_i.some THEN Len(p.sql_i.v) ELSE 0

\* the value a row binds for the column named n
RowValue(self, n) ==
    IF self.kind = "UpdateRow" THEN Tail(self.fields[n]) ELSE self.fields[n]

Called == parts.called /\ blen.called /\ args.called

(***************************************************************************)
(* C1, as claimed: for every instance of every artifact bind_len() equals  *)
(* the number of placeholder tokens to_sql_parts() returns, and bind()     *)
(* adds one value per placeholder token, in their order.  (PatchField      *)
(* returns no placeholder tokens and binds one value.)                     *)
(***************************************************************************)
C1_BindLenIsPlaceholderCount ==
    /\ (parts.called /\ blen.called) => blen.v = PlaceholderCount(parts)
    /\ (parts.called /\ args.called) => Len(args.v) = PlaceholderCount(parts)

(***************************************************************************)
(* C1, amended: for every InsertRow and UpdateRow instance bind_len()      *)
(* equals the number of placeholder tokens of to_sql_parts(), one per      *)
(* column token, and bind() adds the values of those columns in the        *)
(* left-to-right order of the placeholders.  A PatchField returns no       *)
(* placeholder list, its bind_len() is 1 and bind() adds the one value it  *)
(* carries; a Field returns no placeholder list and has no bind.           *)
(***************************************************************************)
C1_RowsBindInLockstep ==
    /\ inst.kind \in {"InsertRow", "UpdateRow"} =>
          /\ parts.called =>
                /\ parts.sql_i.some
                /\ Len(parts.sql_i.v) = Len(parts.sql)
                /\ \A k \in DOMAIN parts.sql_i.v :
                      parts.sql_i.v[k] = <<"$", ToString(k)>>
          /\ (parts.called /\ blen.called) => blen.v = Len(parts.sql_i.v)
          /\ (parts.called /\ args.called) =>
                /\ Len(args.v) = Len(parts.sql_i.v)
                /\ \A k \in DOMAIN args.v :
                      args.v[k] = RowValue(inst, parts.sql[k][1])
    /\ inst.kind = "PatchField" =>
          /\ parts.called => (~parts.sql_i.some /\ Len(parts.sql) = 1)
          /\ blen.called => blen.v = 1
          /\ args.called => args.v = <<inst.arg>>
    /\ inst.kind = "Field" =>
          /\ parts.called => (~parts.sql_i.some /\ Len(parts.sql) = 1)
          /\ ~blen.called
          /\ ~args.called

C1_Witness ==
    /\ inst.kind = "UpdateRow"
    /\ Called
    /\ Len(out.UpdateRow.props) = 2
    /\ blen.v = 2
    /\ Len(args.v) = 2
    /\ args.v[1] # args.v[2]

(***************************************************************************)
(* C2: an UpdateRow emits one column name and one placeholder for each     *)
(* present field and none for an absent one, in declaration order, the     *)
(* placeholders being $1, ..., $k without a gap, k the number of present   *)
(* fields; bind_len() is k and bind() adds the present values in that      *)
(* order.  With one field present the placeholders are exactly $1.         *)
(***************************************************************************)
C2_UpdateRowDense ==
    inst.kind = "UpdateRow" =>
        LET present == SelectSeq(NamesOf(Updatable(ast)),
                                 LAMBDA n : inst.fields[n] # <<"None">>)
            k == Len(present)
        IN  /\ DOMAIN inst.fields = Range(NamesOf(Updatable(ast)))
            /\ parts.called =>
                  /\ parts.sql = [i \in 1 .. k |-> <<present[i]>>]
                  /\ parts.sql_i = [some |-> TRUE, v |-> Dollars(k)]
                  /\ k = 1 => parts.sql_i.v = << <<"$", "1">> >>
            /\ blen.called => blen.v = k
            /\ args.called =>
                  args.v = [i \in 1 .. k |-> Tail(inst.fields[present[i]])]

C2_Witness ==
    /\ inst.kind = "UpdateRow"
    /\ Called
    /\ Len(out.UpdateRow.props) = 2
    /\ inst.fields[out.UpdateRow.props[1].name] = <<"None">>
    /\ inst.fields[out.UpdateRow.props[2].name] # <<"None">>
    /\ parts.sql = << <<out.UpdateRow.props[2].name>> >>
    /\ parts.sql_i.v = << <<"$", "1">> >>
    /\ blen.v = 1
    /\ Len(args.v) = 1

(***************************************************************************)
(* C3: an InsertRow of a schema with n insertable fields emits the n       *)
(* column names in declaration order with the placeholders $1, ..., $n,    *)
(* bind() adds the n field values in declaration order, and bind_len() is  *)
(* n whatever the values are.                                              *)
(***************************************************************************)
C3_InsertRowSequential ==
    inst.kind = "InsertRow" =>
        LET names == NamesOf(Insertable(ast))
            n == Len(names)
        IN  /\ DOMAIN inst.fields = Range(names)
            /\ parts.called =>
                  /\ parts.sql = [i \in 1 .. n |-> <<names[i]>>]
                  /\ parts.sql_i = [some |-> TRUE, v |-> Dollars(n)]
            /\ blen.called => blen.v = n
            /\ args.called =>
                  args.v = [i \in 1 .. n |-> inst.fields[names[i]]]

C3_Witness ==
    /\ inst.kind = "InsertRow"
    /\ Called
    /\ Len(out.InsertRow.props) = 2
    /\ blen.v = 2
    /\ parts.sql_i.v = << <<"$", "1">>, <<"$", "2">> >>
    /\ args.v[1] = <<"None">>
    /\ args.v[2] # <<"None">>

(***************************************************************************)
(* C7: Field has the variant All and one variant for each field of the     *)
(* definition, whatever its policy; All renders to the names of all the    *)
(* fields in declaration order joined by ", ", every other variant to its  *)
(* own name.                                                               *)
(***************************************************************************)
C7_FieldRendering ==
    LET names == NamesOf(ast.fields)
        n == Len(names)
    IN  /\ pc = "generated" => out.Field.variants = <<"All">> \o names
        /\ (inst.kind = "Field" /\ parts.called) =>
              /\ Len(parts.sql) = 1
              /\ IF inst.variant = "All"
                 THEN /\ Len(parts.sql[1]) = (IF n = 0 THEN 0 ELSE 2 * n - 1)
                      /\ \A k \in DOMAIN parts.sql[1] :
                            parts.sql[1][k] = IF k % 2 = 1
                                              THEN names[(k + 1) \div 2]
                                              ELSE ", "
                 ELSE /\ inst.variant \in Range(names)
                      /\ parts.sql[1] = <<inst.variant>>

C7_Witness ==
    /\ inst.kind = "Field"
    /\ inst.variant = "All"
    /\ parts.called
    /\ Len(ast.fields) = 2
    /\ IsLocked(ast.fields[1])
    /\ IsInsertOnly(ast.fields[2])
    /\ parts.sql = << <<ast.fields[1].ident.v, ", ", ast.fields[2].ident.v>> >>

Untagged(d) ==
    \A i \in DOMAIN d.fields : Tags(d.fields[i]) \cap PolicyTags = {}

C14_SchemaRebuild ==
    (pc = "generated" /\ out.repo.shape = "named" /\ Untagged(ast)) =>
        LET U == NamesOf(ast.fields)
            n == Len(U)
            r == out.repo.fields
            middle == <<"status">> \o U \o <<"comment", "tags", "sys_detail">>
            all == <<"id", "sys_client">> \o middle
                       \o <<"created_by", "updated_by", "created_at",
                            "updated_at">>
        IN  /\ NamesOf(r) = all
            /\ Len(r) = n + 10
            /\ Tags(r[1]) = {"locked"}
            /\ Tags(r[2]) = {"insert_only"}
            /\ Tags(r[3]) = {}
            /\ \A i \in 1 .. n :
                  /\ r[3 + i].attrs = ast.fields[i].attrs
                  /\ r[3 + i].ty = ast.fields[i].ty
            /\ Tags(r[n + 4]) = {}
            /\ Tags(r[n + 5]) = {"sqlx"}
            /\ Tags(r[n + 6]) = {"sqlx"}
            /\ \A i \in n + 7 .. n + 10 : Tags(r[i]) = {"locked"}
            /\ [i \in DOMAIN out.InsertRow.props |-> out.InsertRow.props[i].name]
                   = <<"sys_client">> \o middle
            /\ [i \in DOMAIN out.UpdateRow.props |-> out.UpdateRow.props[i].name]
                   = middle
            /\ [i \in DOMAIN out.PatchField.typed_enum |->
                   out.PatchField.typed_enum[i].variant] = middle
            /\ Len(out.Field.all_cols_str) = 2 * (n + 10) - 1
            /\ \A k \in DOMAIN out.Field.all_cols_str :
                  out.Field.all_cols_str[k] = IF k % 2 = 1
                                              THEN all[(k + 1) \div 2]
                                              ELSE ", "
            /\ out.build.schema = margs.schema
            /\ out.build.ctx = margs.ctx
            /\ margs.schema \in Literals

C14_Witness ==
    /\ pc = "generated"
    /\ out.repo.shape = "named"
    /\ Len(ast.fields) = 2
    /\ Tags(ast.fields[1]) = {"sqlx"}
    /\ Tags(ast.fields[2]) = {}
    /\ Len(out.InsertRow.props) = 7
    /\ Len(out.PatchField.typed_enum) = 6
    /\ out.build.schema = "app.item"

(***************************************************************************)
(* C12, as claimed: in every execution of a function under #[mae_test]     *)
(* the user body runs first and teardown is attempted exactly once after   *)
(* it; the outcome is the body's value when neither panicked, the body's   *)
(* panic when the body panicked, the teardown panic when only teardown     *)
(* panicked.  (When the runtime cannot be built neither runs.)             *)
(***************************************************************************)
OutcomeOfBodyAndTeardown ==
    /\ test.log = <<"user", "teardown">>
    /\ (test.user_result.ok /\ test.teardown_result.ok) =>
          test.outcome = [kind |-> "return", v |-> test.user_result.v]
    /\ ~test.user_result.ok =>
          test.outcome = [kind |-> "panic", v |-> test.user_result.v]
    /\ (test.user_result.ok /\ ~test.teardown_result.ok) =>
          test.outcome = [kind |-> "panic", v |-> test.teardown_result.v]

C12_TeardownInEveryExecution ==
    test.pc = "done" => OutcomeOfBodyAndTeardown

(***************************************************************************)
(* C12, amended: in every execution in which the tokio runtime is built    *)
(* the user body runs first and teardown is attempted exactly once after   *)
(* it, also when the body panicked, with the outcome as claimed; when the  *)
(* runtime cannot be built the function panics before the body, and        *)
(* neither the body nor teardown runs.  Teardown never runs before the     *)
(* body and nothing runs twice.                                            *)
(***************************************************************************)
C12_TeardownOnceAfterBody ==
    /\ test.log \in {<<>>, <<"user">>, <<"user", "teardown">>}
    /\ (test.pc = "done" /\ test.rt = "ok") => OutcomeOfBodyAndTeardown
    /\ (test.pc = "done" /\ test.rt = "err") =>
          /\ test.log = <<>>
          /\ test.outcome.kind = "panic"
    /\ test.outcome.kind # "none" => test.pc = "done"

C12_Witness ==
    /\ test.pc = "done"
    /\ test.rt = "ok"
    /\ ~test.user_result.ok
    /\ ~test.teardown_result.ok
    /\ test.log = <<"user", "teardown">>
    /\ test.outcome = [kind |-> "panic", v |-> "user panic"]

(***************************************************************************)
(* C13: the must helpers return the wrapped value exactly when there is    *)
(* one and panic otherwise.  must, must_expect and the four free functions *)
(* return v unchanged on Some(v) and Ok(v); must on None panics with a     *)
(* message containing "expected Some, got None", must on Err with one      *)
(* containing "expected Ok", must_expect on None or Err with one           *)
(* containing the caller's msg; must_be_true(false) panics and             *)
(* must_be_true(true) returns.                                             *)
(***************************************************************************)
MustFamily == {"Option::must", "Result::must", "must_be_some", "must_be_ok"}
ExpectFamily == {"Option::must_expect", "Result::must_expect",
                 "must_expect_some", "must_expect_ok"}

C13_MustHelpers ==
    call.fn # "none" =>
        /\ call.result.kind \in {"return", "panic"}
        /\ call.result.kind = "return" <=> call.arg.kind \in {"Some", "Ok", "true"}
        /\ call.arg.kind \in {"Some", "Ok"} => call.result.v = call.arg.v
        /\ (call.fn \in MustFamily /\ call.arg.kind = "None") =>
              contains(call.result.v, "expected Some, got None")
        /\ (call.fn \in MustFamily /\ call.arg.kind = "Err") =>
              contains(call.result.v, "expected Ok")
        /\ (call.fn \in ExpectFamily /\ call.arg.kind \in {"None", "Err"}) =>
              contains(call.result.v, call.msg)
        /\ call.fn = "must_be_true" => call.arg.kind \in {"true", "false"}

C13_Witness ==
    /\ call.fn = "Option::must_expect"
    /\ call.arg.kind = "None"
    /\ call.msg = "custom msg"
    /\ call.result.kind = "panic"
    /\ contains(call.result.v, "custom msg")

====
